---- MODULE Spec2Model ----
(***************************************************************************)
(* Model of the Telegram -> GPT -> Supabase trade parser (src/main.py).    *)
(*                                                                         *)
(* The program is one message handler, handle_message, that sends the text *)
(* of an update to a chat-completion call governed by SYSTEM_PROMPT,       *)
(* reads the JSON reply and submits each element of "trades" to the        *)
(* new_trades table.  The extraction rules exist only as the text of       *)
(* SYSTEM_PROMPT; they are translated here rule by rule into operators.    *)
(* The reply wrapper is not validated by the Python code, which instead    *)
(* branches on missing keys and on an empty or missing "trades": those     *)
(* replies are outcomes of the call in this model.                         *)
(*                                                                         *)
(* Price levels are integers in cents (688.70 is 68870).                   *)
(***************************************************************************)
EXTENDS Integers, Sequences, FiniteSets, TLC

VARIABLES
    msg,         \* the update being handled (update.message.text, abstracted)
    pc,          \* position of handle_message
    gpt_result,  \* value returned by call_gpt
    idx,         \* position of the for loop over trades (1-based)
    inserted,    \* the handler's counter of successful inserts
    failed,      \* number of insert_trade_row calls that returned False
    posted,      \* the row last handed to insert_trade_row (<<>> if none)
    sent,        \* messages sent to the chat while handling this update
    prev         \* value returned by call_gpt for the previous delivery of
                 \* the same text (<<>> if this text was not delivered before)

vars == <<msg, pc, gpt_result, idx, inserted, failed, posted, sent, prev>>

-----------------------------------------------------------------------------
(* Bounds and constants *)

\* Number of targets on a setup line / TP levels extracted from an idea.
MaxTargets == 3

\* Largest number of target prices a free-form idea mentions.
MaxMentioned == 4

\* Largest number of top-level keys of a reply that depart from the wrapper
\* the prompt demands.
MaxDeviations == 1

-----------------------------------------------------------------------------
(* JSON values *)

Null == "null"          \* JSON null in a string-valued field
None == <<>>            \* JSON null in a number-valued field
Some(x) == <<x>>        \* a number in a number-valued field

-----------------------------------------------------------------------------
(* Input messages *)

Kinds == {"Rejection", "Breakdown", "Breakout", "Bounce"}

KindOrder == <<"Rejection", "Breakdown", "Breakout", "Bounce">>

\* The levels of the A+ block quoted in the prompt.
TriggerLevel(k) ==
    CASE k = "Rejection" -> 68870
      [] k = "Breakdown" -> 68560
      [] k = "Breakout"  -> 68710
      [] k = "Bounce"    -> 68410

TargetLevels(k) ==
    CASE k = "Rejection" -> <<68710, 68560, 68380>>
      [] k = "Breakdown" -> <<68460, 68340, 68180>>
      [] k = "Breakout"  -> <<68820, 68980, 69200>>
      [] k = "Bounce"    -> <<68560, 68710, 68870>>

\* The levels of a general idea: "SPY bullish above 682 targeting 684, 686;
\* stop below 680", continued upwards for ideas naming more targets.
IdeaEntryLevel == 68200
IdeaStopLevel == 68000
IdeaTarget(j) == 68200 + 200 * j
IdeaEntry(m) == IF m.half THEN IdeaEntryLevel + 50 ELSE IdeaEntryLevel

NoCount == [k \in Kinds |-> 0]

\* An update without text.
NonTextMsgs ==
    {[type |-> "nontext", count |-> NoCount, dir |-> "none", entry |-> "none",
      ntp |-> 0, stop |-> "none", half |-> FALSE]}

\* Text with no identifiable symbol or structure ("watch 680 area").
VagueMsgs ==
    {[type |-> "vague", count |-> NoCount, dir |-> "none", entry |-> "none",
      ntp |-> 0, stop |-> "none", half |-> FALSE]}

\* One symbol block in A+ format: count[k] is the number of targets on the
\* line of setup k, 0 when the line is absent.
SheetMsgs ==
    {[type |-> "sheet", count |-> c, dir |-> "none", entry |-> "none",
      ntp |-> 0, stop |-> "none", half |-> FALSE] :
        c \in [Kinds -> 0..MaxTargets] \ {NoCount}}

\* A general idea about one symbol: explicit direction word, entry phrase,
\* number of targets mentioned, stop phrase, and whether the entry level it
\* names lies half a dollar above a whole price (682.50 rather than 682).
IdeaMsgs ==
    {m \in [type : {"idea"}, count : {NoCount},
            dir : {"none", "bullish", "bearish"},
            entry : {"none", "now", "above", "below"},
            ntp : 0..MaxMentioned,
            stop : {"none", "below", "above"},
            half : BOOLEAN] :
        m.half => m.entry \in {"above", "below"}}

Messages == NonTextMsgs \cup VagueMsgs \cup SheetMsgs \cup IdeaMsgs

-----------------------------------------------------------------------------
(* SYSTEM_PROMPT: the extraction rules *)

\* Direction of a setup line -> cp.
CpOfKind(k) == IF k \in {"Breakout", "Bounce"} THEN "call" ELSE "put"

\* A+ execution mode: entry condition of each setup.
EntryCondOfKind(k) ==
    CASE k = "Breakout"  -> "ca"
      [] k = "Breakdown" -> "cb"
      [] k = "Bounce"    -> "at"
      [] k = "Rejection" -> "at"

\* Variant: an entry level only for close-confirmed entries.
EntryLevel_OnlyForClose(cond, level) ==
    IF cond \in {"ca", "cb"} THEN Some(level) ELSE None

\* Variant: every entry with a level gets the default timeframe.
EntryTf_DefaultsTo5m(cond) == IF cond = "now" THEN Null ELSE "5m"

\* ENTRY FIELD RULES.
EntryLevel(cond, level) == IF cond = "now" THEN None ELSE Some(level)

EntryTf(cond) == IF cond \in {"ca", "cb"} THEN "5m" ELSE Null

\* A stop with its four fields set, and the stop with none.
Stop(cond, level) ==
    [sl_type |-> "equity", sl_cond |-> cond, sl_level |-> Some(level),
     sl_tf |-> "5m"]

NoStop ==
    [sl_type |-> Null, sl_cond |-> Null, sl_level |-> None, sl_tf |-> Null]

\* What a reply may do where the A+ SL rule names a level the block does not
\* hold (a Breakout line without a Breakdown line, or the converse): the
\* self-check allows only a fully valid stop or none.
StopFallbacks == {"none", "own"}

MissingStop(cond, k, fb) ==
    IF fb = "own" THEN Stop(cond, TriggerLevel(k)) ELSE NoStop

\* A+ SL RULES (MANDATORY).
StopOfSetup(k, count, fb) ==
    CASE k = "Breakout" ->
            IF count["Breakdown"] > 0
            THEN Stop("cb", TriggerLevel("Breakdown"))
            ELSE MissingStop("cb", k, fb)
      [] k = "Breakdown" ->
            IF count["Breakout"] > 0
            THEN Stop("ca", TriggerLevel("Breakout"))
            ELSE MissingStop("ca", k, fb)
      [] k = "Bounce"    -> Stop("cb", TriggerLevel("Bounce"))
      [] k = "Rejection" -> Stop("ca", TriggerLevel("Rejection"))

\* Variant: the touch-entry setups are typed as scalps.
TradeType_ScalpForTouch(note) ==
    IF note \in {"Rejection", "Bounce"} THEN "scalp" ELSE "day"

\* trade_type ALWAYS "day", whatever the setup or idea.
TradeType(note) == "day"

\* One trade object of the "trades" array (the fields the rules decide).
Row(cp, cond, level, stop, tp, note) ==
    [symbol |-> "SPY", cp |-> cp,
     entry_cond |-> cond, entry_level |-> EntryLevel(cond, level),
     entry_tf |-> EntryTf(cond),
     sl_type |-> stop.sl_type, sl_cond |-> stop.sl_cond,
     sl_level |-> stop.sl_level, sl_tf |-> stop.sl_tf,
     tp_level |-> tp, note |-> note, trade_type |-> TradeType(note)]

\* One trade per arrow target of a setup line, sharing entry and stop.
ExpandSetup(k, count, fb) ==
    [j \in 1..count[k] |->
        Row(CpOfKind(k), EntryCondOfKind(k), TriggerLevel(k),
            StopOfSetup(k, count, fb), TargetLevels(k)[j], k)]

\* Variant: only the structural setups are expanded.
ExpandSheet_SkipsScalps(count, fb) ==
    ExpandSetup("Breakdown", count, fb) \o ExpandSetup("Breakout", count, fb)

\* Every setup line present is an independent trade idea.
ExpandSheet(count, fb) ==
    ExpandSetup(KindOrder[1], count, fb) \o ExpandSetup(KindOrder[2], count, fb)
        \o ExpandSetup(KindOrder[3], count, fb)
        \o ExpandSetup(KindOrder[4], count, fb)

\* Variant: the entry phrase decides before the stated sentiment.
IdeaCp_PhraseFirst(m) ==
    CASE m.entry = "above" -> "call"
      [] m.entry = "below" -> "put"
      [] m.dir = "bullish" -> "call"
      [] m.dir = "bearish" -> "put"
      [] OTHER -> "none"

\* General idea direction -> cp ("none": direction not identifiable).
IdeaCp(m) ==
    CASE m.dir = "bullish" -> "call"
      [] m.dir = "bearish" -> "put"
      [] m.entry = "above" -> "call"
      [] m.entry = "below" -> "put"
      [] OTHER -> "none"

\* ENTRY LOGIC for general ideas ("none": no rule gives an entry condition).
IdeaEntryCond(m) ==
    CASE m.entry = "now" -> "now"
      [] m.entry = "above" /\ IdeaCp(m) = "call" -> "ca"
      [] m.entry = "below" /\ IdeaCp(m) = "put" -> "cb"
      [] OTHER -> "none"

\* Variant: an unspecified stop still carries sl_type.
StopOfIdea_KeepsType(m) ==
    CASE m.stop = "below" -> Stop("cb", IdeaStopLevel)
      [] m.stop = "above" -> Stop("ca", IdeaStopLevel)
      [] OTHER -> [NoStop EXCEPT !.sl_type = "equity"]

\* General ideas SL.
StopOfIdea(m) ==
    CASE m.stop = "below" -> Stop("cb", IdeaStopLevel)
      [] m.stop = "above" -> Stop("ca", IdeaStopLevel)
      [] OTHER -> NoStop

Min(a, b) == IF a < b THEN a ELSE b

\* Mode 2: up to 3 TP levels, one trade per TP, none without a TP.
ExpandIdea(m) ==
    IF IdeaCp(m) = "none" \/ IdeaEntryCond(m) = "none"
    THEN <<>>
    ELSE [j \in 1..Min(m.ntp, MaxTargets) |->
            Row(IdeaCp(m), IdeaEntryCond(m), IdeaEntry(m), StopOfIdea(m),
                IdeaTarget(j), "general idea")]

\* The trades the rules yield for a message.
Trades(m, fb) ==
    CASE m.type = "sheet" -> ExpandSheet(m.count, fb)
      [] m.type = "idea"  -> ExpandIdea(m)
      [] OTHER -> <<>>

\* Variant: the strike is the reference price with its cents cut off.
NearestStrike_Truncates(level, up) == level \div 100

\* The whole-number strike nearest to a price in cents.  A price half a
\* dollar above a whole price has two nearest strikes; up tells which.
NearestStrike(level, up) ==
    IF up THEN (level + 50) \div 100 ELSE (level + 49) \div 100

\* The prompt does not say which of two equally near strikes to choose: a
\* reply may take the upper one, the lower one, or differ from row to row.
TieChoices == {"up", "down", "mixed"}

\* The prompt names no reference price for an entry "now": a reply may go
\* by the row's stop, by the row's target or by the first target.
RefChoices == {"stop", "target", "first_target"}

\* The choices open for a message: only an entry level half-way between two
\* whole prices has two nearest strikes, only an entry now lacks a reference.
TiesOf(m) == IF m.half THEN TieChoices ELSE {"up"}
RefsOf(m) == IF m.entry = "now" THEN RefChoices ELSE {"target"}

\* OPTION FIELD RULES: the reference price of row i of a reply, which is
\* its entry level if it has one.
ReferencePrice(rows, i, ref) ==
    LET r == rows[i] IN
    CASE r.entry_level # None -> r.entry_level[1]
      [] ref = "stop" /\ r.sl_level # None -> r.sl_level[1]
      [] ref = "first_target" -> rows[1].tp_level
      [] OTHER -> r.tp_level

\* The trades with the strike of each row filled in.
Priced(rows, tie, ref) ==
    [i \in 1..Len(rows) |->
        rows[i] @@
        [strike |-> NearestStrike(ReferencePrice(rows, i, ref),
                        tie = "up" \/ (tie = "mixed" /\ i % 2 = 1))]]

\* The short explanation given when no valid trade can be produced.
NoTradeReason(m) ==
    CASE m.type = "idea" /\ IdeaCp(m) = "none" -> "direction not identifiable"
      [] m.type = "idea" /\ IdeaEntryCond(m) = "none" -> "no entry trigger"
      [] m.type = "idea" -> "no target level"
      [] OTHER -> "no identifiable symbol"

-----------------------------------------------------------------------------
(* The reply of the chat-completion call *)

TopKeys == {"has_trades", "no_trade_reason", "trades"}

\* What iterating over a string yields: its characters, one by one (here
\* those of the text "[]").
StringItems == <<[char |-> "["], [char |-> "]"]>>

\* A decoded JSON object: the keys it holds and their values (the value of
\* a key it does not hold is a filler).  tkind tells a list from a number
\* and from a string; trades holds what a loop over the value goes through.
Object(keys, ht, reason, tkind, trades) ==
    [json |-> "object", keys |-> keys,
     has_trades |-> IF "has_trades" \in keys THEN ht ELSE FALSE,
     no_trade_reason |-> IF "no_trade_reason" \in keys THEN reason ELSE Null,
     tkind |-> IF "trades" \in keys THEN tkind ELSE "list",
     trades |-> IF "trades" \in keys /\ tkind = "list" THEN trades
                ELSE IF "trades" \in keys /\ tkind = "string" THEN StringItems
                ELSE <<>>]

\* Valid JSON that is not an object, and the absence of any result.
NonObject == Object({}, FALSE, Null, "list", <<>>) @@ [json |-> "array"]
NoResult == [NonObject EXCEPT !.json = "none"]

\* MANDATORY OUTPUT WRAPPER: the reply the prompt demands.
Wrapper(rows, why) ==
    IF rows # <<>>
    THEN Object(TopKeys, TRUE, Null, "list", rows)
    ELSE Object(TopKeys, FALSE, why, "list", <<>>)

\* The values a key can take in a reply that departs from the wrapper.
ReplyShapes(rows, why) ==
    {Object(ks, ht, r, tk, ts) :
        ks \in SUBSET TopKeys, ht \in BOOLEAN, r \in {Null, why},
        tk \in {"list", "number", "string"}, ts \in {rows, <<>>}}

\* Number of top-level keys on which two objects differ.
Deviation(a, b) ==
    Cardinality({k \in TopKeys :
        \/ (k \in a.keys) # (k \in b.keys)
        \/ k = "has_trades" /\ a.has_trades # b.has_trades
        \/ k = "no_trade_reason" /\ a.no_trade_reason # b.no_trade_reason
        \/ k = "trades" /\ (a.tkind # b.tkind \/ a.trades # b.trades)})

\* The objects call_gpt can return for a message.
Replies(m, fb) ==
    {e \in ReplyShapes(Trades(m, fb), NoTradeReason(m)) :
        Deviation(e, Wrapper(Trades(m, fb), NoTradeReason(m))) <= MaxDeviations}

-----------------------------------------------------------------------------
(* call_gpt, insert_trade_row *)

\* How the chat-completion request or the decoding of its content can fail.
CallFailures == {"api_error", "json_decode_error"}

\* What the POST to /rest/v1/new_trades can come to.
PostOutcomes == {"200", "201", "204", "400", "409", "500", "exception"}

\* insert_trade_row: True on status 200, 201 or 204, False otherwise.
insert_trade_row(outcome) == outcome \in {"200", "201", "204"}

-----------------------------------------------------------------------------
(* handle_message *)

\* dict.get(key, default) on the decoded reply.
GetHasTrades(e) == IF "has_trades" \in e.keys THEN e.has_trades ELSE FALSE

GetReason(e) ==
    IF "no_trade_reason" \in e.keys THEN e.no_trade_reason
    ELSE "No trade detected."

\* "not trades": the key is missing (None) or holds an empty list (the
\* number and the string a reply can hold here are not zero, not empty).
TradesFalsy(e) ==
    "trades" \notin e.keys \/ (e.tkind = "list" /\ e.trades = <<>>)

\* A message sent to the chat.
Reply(kind, n, reason) == [kind |-> kind, n |-> n, reason |-> reason]

ParsingReply == Reply("parsing", 0, Null)
ErrorReply == Reply("gpt_error", 0, Null)
NoTradeReply(reason) == Reply("no_trade", 0, reason)
NoArrayReply == Reply("no_trades_array", 0, Null)
InsertedReply(n) == Reply("inserted", n, Null)

Init ==
    /\ msg = CHOOSE m \in NonTextMsgs : TRUE
    /\ pc = "idle"
    /\ gpt_result = NoResult
    /\ idx = 1
    /\ inserted = 0
    /\ failed = 0
    /\ posted = <<>>
    /\ sent = <<>>
    /\ prev = <<>>

\* Entry of the handler with update m: return at once without text,
\* otherwise send the "Parsing" notice.
Enter(m) ==
    /\ msg' = m
    /\ gpt_result' = NoResult
    /\ idx' = 1
    /\ inserted' = 0
    /\ failed' = 0
    /\ posted' = <<>>
    /\ IF m.type = "nontext"
       THEN pc' = "done" /\ sent' = <<>>
       ELSE pc' = "parsing" /\ sent' = <<ParsingReply>>

\* The dispatcher delivers an update.
Receive ==
    /\ pc = "idle"
    /\ \E m \in Messages : Enter(m)
    /\ prev' = <<>>

\* The user sends the text just handled once more.
Redeliver ==
    /\ pc \in {"done", "crashed"}
    /\ msg.type # "nontext"
    /\ Enter(msg)
    /\ prev' = <<gpt_result>>

\* The handler has returned (or raised); its locals are gone and the
\* dispatcher waits for the next update.
Return ==
    /\ pc \in {"done", "crashed"}
    /\ pc' = "idle"
    /\ msg' = CHOOSE m \in NonTextMsgs : TRUE
    /\ gpt_result' = NoResult
    /\ idx' = 1
    /\ inserted' = 0
    /\ failed' = 0
    /\ posted' = <<>>
    /\ sent' = <<>>
    /\ prev' = <<>>

\* call_gpt raises: the handler reports the error and returns.
CallGptFails ==
    /\ pc = "parsing"
    /\ \E f \in CallFailures :
        /\ sent' = Append(sent, ErrorReply)
        /\ pc' = "done"
    /\ UNCHANGED <<msg, gpt_result, idx, inserted, failed, posted, prev>>

\* call_gpt returns a decoded JSON object.
CallGptReturns ==
    /\ pc = "parsing"
    /\ \E fb \in StopFallbacks, tie \in TiesOf(msg), ref \in RefsOf(msg) :
        \E e \in Replies(msg, fb) :
            gpt_result' = [e EXCEPT !.trades =
                IF e.tkind = "list" THEN Priced(@, tie, ref) ELSE @]
    /\ pc' = "got"
    /\ UNCHANGED <<msg, idx, inserted, failed, posted, sent, prev>>

\* call_gpt returns decoded JSON that is not an object.
CallGptReturnsNonObject ==
    /\ pc = "parsing"
    /\ gpt_result' = NonObject
    /\ pc' = "got"
    /\ UNCHANGED <<msg, idx, inserted, failed, posted, sent, prev>>

\* Lines 745-758: read has_trades and trades and choose the path.
Dispatch ==
    /\ pc = "got"
    /\ IF gpt_result.json # "object"
       THEN \* .get on a non-dict raises AttributeError
            pc' = "crashed" /\ sent' = sent
       ELSE IF ~GetHasTrades(gpt_result)
       THEN /\ sent' = Append(sent, NoTradeReply(GetReason(gpt_result)))
            /\ pc' = "done"
       ELSE IF TradesFalsy(gpt_result)
       THEN /\ sent' = Append(sent, NoArrayReply)
            /\ pc' = "done"
       ELSE IF gpt_result.tkind = "number"
       THEN \* iterating a number raises TypeError
            pc' = "crashed" /\ sent' = sent
       ELSE pc' = "inserting" /\ sent' = sent
    /\ UNCHANGED <<msg, gpt_result, idx, inserted, failed, posted, prev>>

\* Variant: the loop gives up at the first failed insert.
InsertRow_StopsAtFailure ==
    /\ pc = "inserting"
    /\ idx <= Len(gpt_result.trades)
    /\ posted' = <<gpt_result.trades[idx]>>
    /\ \E outcome \in PostOutcomes :
        IF insert_trade_row(outcome)
        THEN inserted' = inserted + 1 /\ failed' = failed /\ idx' = idx + 1
        ELSE /\ inserted' = inserted /\ failed' = failed + 1
             /\ idx' = Len(gpt_result.trades) + 1
    /\ UNCHANGED <<msg, pc, gpt_result, sent, prev>>

\* One turn of the loop: submit trades[idx] and count it if it went in.
InsertRow ==
    /\ pc = "inserting"
    /\ idx <= Len(gpt_result.trades)
    /\ posted' = <<gpt_result.trades[idx]>>
    /\ \E outcome \in PostOutcomes :
        IF insert_trade_row(outcome)
        THEN inserted' = inserted + 1 /\ failed' = failed
        ELSE inserted' = inserted /\ failed' = failed + 1
    /\ idx' = idx + 1
    /\ UNCHANGED <<msg, pc, gpt_result, sent, prev>>

\* Variant: the reply reports the number of rows of trades.
FinalReply_CountsRows ==
    /\ pc = "inserting"
    /\ idx > Len(gpt_result.trades)
    /\ sent' = Append(sent, InsertedReply(Len(gpt_result.trades)))
    /\ pc' = "done"
    /\ UNCHANGED <<msg, gpt_result, idx, inserted, failed, posted, prev>>

\* After the loop: report the count and return.
FinalReply ==
    /\ pc = "inserting"
    /\ idx > Len(gpt_result.trades)
    /\ sent' = Append(sent, InsertedReply(inserted))
    /\ pc' = "done"
    /\ UNCHANGED <<msg, gpt_result, idx, inserted, failed, posted, prev>>

Next ==
    \/ Receive
    \/ Return
    \/ CallGptFails
    \/ CallGptReturns
    \/ CallGptReturnsNonObject
    \/ Dispatch
    \/ InsertRow
    \/ FinalReply

Spec == Init /\ [][Next]_vars

\* The event loop runs a started handler to its end: the chat-completion
\* call and every POST return or raise, and the handler then takes its next
\* step.  Nothing obliges a further update to arrive.
FairSpec ==
    /\ Spec
    /\ WF_vars(CallGptFails \/ CallGptReturns \/ CallGptReturnsNonObject)
    /\ WF_vars(Dispatch)
    /\ WF_vars(InsertRow)
    /\ WF_vars(FinalReply)

\* The same program, with the previous reply to a repeated text remembered.
NextRepeat ==
    \/ Next
    \/ Redeliver

SpecRepeat == Init /\ [][NextRepeat]_vars

-----------------------------------------------------------------------------
(* Properties *)

\* call_gpt has returned a JSON object in this handling.
HasObject == gpt_result.json = "object"

\* The object holds the three keys and a list of trades.
WellFormed(e) ==
    /\ e.json = "object"
    /\ TopKeys \subseteq e.keys
    /\ e.tkind = "list"

\* A trade row has been handed to insert_trade_row.
PostedRow == gpt_result.tkind = "list" /\ posted # <<>>

\* Every trade row in the reply or handed to insert_trade_row.
ProducedRows ==
    IF gpt_result.tkind = "list"
    THEN {gpt_result.trades[i] : i \in 1..Len(gpt_result.trades)}
            \cup {posted[i] : i \in 1..Len(posted)}
    ELSE {}

LastSent == sent[Len(sent)]

\* C1 (as claimed): every object the handler reads is a well-formed envelope
\* in which has_trades is false exactly when trades is empty and
\* no_trade_reason is not null.
C1_NoTradeTotality ==
    HasObject =>
        /\ WellFormed(gpt_result)
        /\ (gpt_result.has_trades = FALSE) <=>
              (gpt_result.trades = <<>> /\ gpt_result.no_trade_reason # Null)

\* C2 (as claimed): no exception escapes handle_message, whatever call_gpt
\* obtained or decoded.
C2_NoUncaughtError == pc # "crashed"

RowsOfKind(rows, k) ==
    LET IsK(r) == r.note = k IN SelectSeq(rows, IsK)

SumCounts(c) ==
    c["Rejection"] + c["Breakdown"] + c["Breakout"] + c["Bounce"]

C7_PerRowBoundary ==
    [][(pc = "inserting" /\ idx <= Len(gpt_result.trades)) =>
          /\ gpt_result' = gpt_result
          /\ pc' = "inserting"
          /\ idx' = idx + 1
          /\ posted' = <<gpt_result.trades[idx]>>
          /\ inserted' + failed' = idx
          /\ inserted' \in {inserted, inserted + 1}]_vars

\* An insert has failed and the next row is about to be submitted.
C7_Witness ==
    /\ pc = "inserting"
    /\ failed >= 1
    /\ idx <= Len(gpt_result.trades)

C8_ReplySent ==
    (pc \in {"done", "crashed"} /\ msg.type # "nontext") =>
        LET e == gpt_result IN
        CASE e.json = "none" -> pc = "done" /\ sent = <<ParsingReply, ErrorReply>>
          [] e.json = "array" -> pc = "crashed" /\ sent = <<ParsingReply>>
          [] e.json = "object" /\ ("has_trades" \notin e.keys \/ ~e.has_trades) ->
                /\ pc = "done"
                /\ sent = <<ParsingReply,
                            NoTradeReply(IF "no_trade_reason" \in e.keys
                                         THEN e.no_trade_reason
                                         ELSE "No trade detected.")>>
          [] OTHER ->
                IF "trades" \notin e.keys \/ (e.tkind = "list" /\ e.trades = <<>>)
                THEN pc = "done" /\ sent = <<ParsingReply, NoArrayReply>>
                ELSE IF e.tkind = "number"
                THEN pc = "crashed" /\ sent = <<ParsingReply>>
                ELSE /\ pc = "done"
                     /\ failed <= Len(e.trades)
                     /\ sent = <<ParsingReply,
                                 InsertedReply(Len(e.trades) - failed)>>

C9_Idempotent ==
    (prev # <<>> /\ pc = "got" /\ HasObject /\ prev[1].json = "object") =>
        gpt_result = prev[1]

ClaimedReference(r) ==
    IF r.entry_cond \in {"ca", "cb", "at"} THEN r.entry_level[1]
    ELSE IF r.sl_level # None THEN r.sl_level[1]
    ELSE r.tp_level

InsertAttempted == inserted + failed > 0 \/ posted # <<>>

\* C13 (as claimed): insert_trade_row is called only if call_gpt returned,
\* has_trades is truthy and trades is a non-empty list, and then once for
\* each element in order; the count of the final reply is the number of
\* inserts that succeeded, between 0 and the length of trades.
C13_InsertsOnlyFromList ==
    /\ InsertAttempted =>
          /\ msg.type # "nontext"
          /\ HasObject
          /\ GetHasTrades(gpt_result)
          /\ "trades" \in gpt_result.keys
          /\ gpt_result.tkind = "list"
          /\ gpt_result.trades # <<>>
          /\ pc \in {"inserting", "done"}
          /\ inserted + failed = idx - 1
          /\ idx - 1 \in 1..Len(gpt_result.trades)
          /\ posted = <<gpt_result.trades[idx - 1]>>
    /\ (pc = "done" /\ sent # <<>> /\ LastSent.kind = "inserted") =>
          /\ LastSent.n = inserted
          /\ inserted \in 0..Len(gpt_result.trades)
          /\ inserted + failed = Len(gpt_result.trades)

====
